---- MODULE Spec2Model ----
(***************************************************************************)
(* A model of 8K_corpus_builder.py: the exhibit locator (er_generator),    *)
(* the noise filter (clean_text / clean_text_helper), the return           *)
(* classifier (classify) and the orchestrator (parser_dir run by main over *)
(* a process pool).  Each component has its own specification; the         *)
(* variables of the other components stay at their initial value.          *)
(***************************************************************************)
EXTENDS Integers, Sequences, FiniteSets, TLC

VARIABLES
    \* ---- er_generator ----
    lines,               \* the line stream handed to er_generator
    pos,                 \* number of lines the generator has consumed
    start_marker_found,  \* local flag of er_generator
    return_line,         \* local flag of er_generator
    yielded,             \* indices (into lines) of the lines yielded so far
    gen_pc,              \* "running" | "broke" | "exhausted"
    \* ---- clean_text ----
    er,                  \* the text handed to clean_text (a sequence of characters)
    trim_limit,          \* its trim_limit, in percent
    retained,            \* indices of the blocks of er that the helper kept
    cleaned,             \* the text clean_text returned
    flt_pc,              \* "call" | "done" | "raised"
    \* ---- classify ----
    close_prices,        \* the closing prices at the dates of the window
    num_class,           \* classify's num_class
    limit,               \* classify's limit, in percent
    sentiment,           \* the label classify returned
    cls_pc,              \* "call" | "done" | "raised"
    \* ---- main / parser_dir ----
    form_dir,            \* per file of FORM_DIR: what extract_er returns for it
                         \* and the closing prices of its window
    corpus,              \* per corpus path: the file's content, or Absent
    dirs,                \* the label directories that exist under CORPORA_PATH
    queue,               \* the per-symbol filing lists not yet handed to a worker
    w_pc,                \* per worker: its position in parser_dir
    w_task,              \* per worker: the filing list it was handed
    w_idx,               \* per worker: index of the current filing in w_task
    w_buf,               \* per worker: clean_er and er_class of the current filing
    failed,              \* a parser_dir call raised; pool.map has yet to re-raise
    main_pc,             \* "idle" | "mapping" | "joined" | "raised"
    run,                 \* number of the current run of main
    log,                 \* history: what happened to which filing in which run
    wcount               \* history: files written per run and filing

gen_vars == <<lines, pos, start_marker_found, return_line, yielded, gen_pc>>

flt_vars == <<er, trim_limit, retained, cleaned, flt_pc>>

cls_vars == <<close_prices, num_class, limit, sentiment, cls_pc>>

pipe_vars == <<form_dir, corpus, dirs, queue, w_pc, w_task, w_idx, w_buf,
               failed, main_pc, run, log, wcount>>

vars == <<gen_vars, flt_vars, cls_vars, pipe_vars>>

\* The least element of a non-empty set of integers.
Min(S) == CHOOSE x \in S : \A y \in S : x <= y

----------------------------------------------------------------------------
(***************************************************************************)
(* er_generator.  A line is modelled by the set of things the generator    *)
(* tests it for: "TYPE" when it contains '<TYPE>EX-99', "TEXT" when it     *)
(* contains '<TEXT>', "CLOSE" when it contains '</TEXT>', "ANN" when the   *)
(* announcement pattern (announces|reports|accounced|reported ... quarter) *)
(* is found in it.                                                         *)
(***************************************************************************)
MaxLines == 4

LineKinds ==
    { {}, {"TYPE"}, {"TEXT"}, {"CLOSE"}, {"ANN"},
      {"TEXT", "CLOSE"}, {"TYPE", "TEXT"}, {"TYPE", "ANN"} }

LineStreams == UNION { [1..n -> LineKinds] : n \in 0..MaxLines }

\* lines 184-186: the marker test, only while no marker was found.
NextStartMarkerFound(smf, line) == smf \/ "TYPE" \in line

\* lines 184-190: the fallback pattern is tried only on a line that is read
\* before any marker and is not itself the marker line (elif); '<TEXT>' turns
\* emission on once the marker was found (this line included).
NextReturnLine_AnyText(smf, rl, line) ==
    IF ~smf /\ "TYPE" \notin line /\ "ANN" \in line THEN TRUE
    ELSE IF "TEXT" \in line THEN TRUE
    ELSE rl

NextReturnLine_Always(smf, rl, line) == TRUE

NextReturnLine(smf, rl, line) ==
    IF ~smf /\ "TYPE" \notin line /\ "ANN" \in line THEN TRUE
    ELSE IF NextStartMarkerFound(smf, line) /\ "TEXT" \in line THEN TRUE
    ELSE rl

\* lines 193-194: the break test, made after the yield.
BreakAfter(smf, line) == "CLOSE" \in line /\ smf

GenIdle ==
    /\ lines = <<>>
    /\ pos = 0
    /\ start_marker_found = FALSE
    /\ return_line = FALSE
    /\ yielded = <<>>
    /\ gen_pc = "exhausted"

GenStart ==
    /\ lines \in LineStreams
    /\ pos = 0
    /\ start_marker_found = FALSE
    /\ return_line = FALSE
    /\ yielded = <<>>
    /\ gen_pc = "running"

\* One iteration of the for loop on the next line of the stream.
ErLoopBody(brk) ==
    /\ gen_pc = "running"
    /\ pos < Len(lines)
    /\ LET line == lines[pos + 1]
           smf  == NextStartMarkerFound(start_marker_found, line)
           rl   == NextReturnLine(start_marker_found, return_line, line)
       IN /\ BreakAfter(smf, line) = brk
          /\ pos' = pos + 1
          /\ start_marker_found' = smf
          /\ return_line' = rl
          /\ yielded' = IF rl THEN Append(yielded, pos + 1) ELSE yielded
          /\ gen_pc' = IF brk THEN "broke" ELSE "running"
    /\ UNCHANGED lines
    /\ UNCHANGED <<flt_vars, cls_vars, pipe_vars>>

\* An iteration that does not end the loop.
ErIterate ==
    /\ gen_pc = "running"
    /\ ErLoopBody(FALSE)

\* An iteration on a '</TEXT>' line after the marker: the line is yielded (if
\* emission is on) and the loop breaks.
ErBreak ==
    /\ gen_pc = "running"
    /\ ErLoopBody(TRUE)

\* The stream is exhausted: the for loop ends.
ErStopIteration ==
    /\ gen_pc = "running"
    /\ pos = Len(lines)
    /\ gen_pc' = "exhausted"
    /\ UNCHANGED <<lines, pos, start_marker_found, return_line, yielded>>
    /\ UNCHANGED <<flt_vars, cls_vars, pipe_vars>>

GenNext == ErIterate \/ ErBreak \/ ErStopIteration

\* Index of the first line containing tag at or after index m; 0 when none.
FirstAtOrAfter(tag, m) ==
    LET S == { i \in m..Len(lines) : i >= 1 /\ tag \in lines[i] }
    IN IF S = {} THEN 0 ELSE Min(S)

MarkerIdx == FirstAtOrAfter("TYPE", 1)

\* First line that contains the marker or matches the fallback pattern.
TriggerIdx ==
    LET S == { i \in 1..Len(lines) : lines[i] \cap {"TYPE", "ANN"} # {} }
    IN IF S = {} THEN 0 ELSE Min(S)

NoAnnBeforeMarker == \A i \in 1..(MarkerIdx - 1) : "ANN" \notin lines[i]

Range(a, b) == [i \in 1..(IF b >= a THEN b - a + 1 ELSE 0) |-> a + i - 1]

\* C5: when no line before the first '<TYPE>EX-99' line matches the fallback
\* pattern and a '</TEXT>' line follows the marker, the finished generator has
\* yielded exactly the run from the first '<TEXT>' line at or after the marker
\* to the first '</TEXT>' line at or after the marker (both included; nothing
\* when no '<TEXT>' line comes first) and has consumed no line after the
\* closing line.
C5_ExhibitRun ==
    LET m == MarkerIdx
        s == FirstAtOrAfter("TEXT", m)
        e == FirstAtOrAfter("CLOSE", m)
    IN (gen_pc # "running" /\ m > 0 /\ NoAnnBeforeMarker /\ e > 0)
         => /\ gen_pc = "broke"
            /\ pos = e
            /\ yielded = (IF s > 0 THEN Range(s, e) ELSE <<>>)

C5_Witness ==
    /\ gen_pc = "broke"
    /\ MarkerIdx > 0 /\ NoAnnBeforeMarker
    /\ Len(yielded) >= 2
    /\ yielded[1] > MarkerIdx
    /\ pos < Len(lines)
    /\ "TYPE" \in lines[Len(lines)]

\* C8 as stated: output only if a '<TYPE>EX-99' line was read, nothing yielded
\* from before the marker line, and a finished output ends at the closing
\* '</TEXT>' line or at end-of-stream.
C8_OnlyAfterMarker ==
    /\ yielded # <<>> => (MarkerIdx > 0 /\ MarkerIdx <= pos)
    /\ \A k \in 1..Len(yielded) : yielded[k] >= MarkerIdx
    /\ (gen_pc # "running" /\ yielded # <<>>) =>
          /\ yielded[Len(yielded)] = pos
          /\ \/ gen_pc = "exhausted" /\ pos = Len(lines)
             \/ gen_pc = "broke" /\ "CLOSE" \in lines[pos]

\* C8 amended: output only if a marker line or a fallback-pattern line was
\* read, nothing is yielded from before the first such line, and a finished
\* output ends at the first '</TEXT>' line at or after the marker or at
\* end-of-stream.
C8_OnlyAfterTrigger ==
    /\ yielded # <<>> => (TriggerIdx > 0 /\ TriggerIdx <= pos)
    /\ \A k \in 1..Len(yielded) : yielded[k] >= TriggerIdx
    /\ (gen_pc # "running" /\ yielded # <<>>) =>
          /\ yielded[Len(yielded)] = pos
          /\ \/ gen_pc = "exhausted" /\ pos = Len(lines)
             \/ /\ gen_pc = "broke"
                /\ MarkerIdx > 0
                /\ pos = FirstAtOrAfter("CLOSE", MarkerIdx)

C8_Witness ==
    /\ gen_pc = "broke"
    /\ TriggerIdx > 0 /\ TriggerIdx < MarkerIdx
    /\ yielded # <<>> /\ yielded[1] = TriggerIdx

----------------------------------------------------------------------------
(***************************************************************************)
(* clean_text and clean_text_helper.  A text is a sequence of one-character *)
(* strings.  The patterns are run by a backtracking matcher with Python's  *)
(* preference order (greedy quantifiers, leftmost match), so that re.sub   *)
(* removes what Python removes.                                            *)
(***************************************************************************)
NL == "\n"

DIGITS == {"0", "1", "2", "3", "4", "5", "6", "7", "8", "9"}

UPPER == {"A", "B", "C", "D", "E", "F", "G", "H", "I", "J", "K", "L", "M",
          "N", "O", "P", "Q", "R", "S", "T", "U", "V", "W", "X", "Y", "Z"}

WHITESPACE == {" ", "\t", NL, "\r", "\f"}

\* Pattern items.  A class item matches between lo and hi characters (hi = -1:
\* no upper limit) that are in set (neg = FALSE) or not in set (neg = TRUE).
Bol == [k |-> "bol"]
Eol == [k |-> "eol"]
Cls(set, neg, lo, hi) == [k |-> "cls", set |-> set, neg |-> neg, lo |-> lo, hi |-> hi]
Lit(c) == Cls({c}, FALSE, 1, 1)
\* '.' under re.S matches every character.
DotPlus == Cls({}, TRUE, 1, -1)

\* lines 393-423: the patterns whose literals can occur in a text over
\* digits, parentheses, whitespace and single letters.  Every other pattern
\* of the battery needs a word ("conference call", "trademark", ...) and so
\* leaves such a text as it is.
PATTERNS ==
    [ TABLE_HEADER1 |->   \* '^\([0-9A-Z]+\)$', no flags
        [multiline |-> FALSE,
         items |-> <<Bol, Lit("("), Cls(DIGITS \cup UPPER, FALSE, 1, -1), Lit(")"), Eol>>],
      FOOTNOTES |->       \* '^\s*\(\d+\)\s*.+', re.I|re.M|re.S
        [multiline |-> TRUE,
         items |-> <<Bol, Cls(WHITESPACE, FALSE, 0, -1), Lit("("),
                     Cls(DIGITS, FALSE, 1, -1), Lit(")"),
                     Cls(WHITESPACE, FALSE, 0, -1), DotPlus>>],
      PAGE_NUMBERS1 |->   \* '^\s*\D*\d+\D*\s*$', re.I|re.M|re.S
        [multiline |-> TRUE,
         items |-> <<Bol, Cls(WHITESPACE, FALSE, 0, -1), Cls(DIGITS, TRUE, 0, -1),
                     Cls(DIGITS, FALSE, 1, -1), Cls(DIGITS, TRUE, 0, -1),
                     Cls(WHITESPACE, FALSE, 0, -1), Eol>>] ]

PatternNames == DOMAIN PATTERNS

InCls(c, it) == (c \in it.set) # it.neg

\* '^' at offset i (i characters precede it).
AtBol(p, s, i) == i = 0 \/ (p.multiline /\ s[i] = NL)

\* '$' at offset i.
AtEol(p, s, i) ==
    \/ i = Len(s)
    \/ p.multiline /\ i < Len(s) /\ s[i + 1] = NL
    \/ ~p.multiline /\ i = Len(s) - 1 /\ s[Len(s)] = NL

\* Length of the longest run of characters of class it from offset i.
RECURSIVE RunLen(_, _, _, _)
RunLen(it, s, i, n) ==
    IF i + n < Len(s) /\ (it.hi = -1 \/ n < it.hi) /\ InCls(s[i + n + 1], it)
    THEN RunLen(it, s, i, n + 1)
    ELSE n

\* MatchFrom(p, k, s, i): the end offset of the match Python prefers for
\* items k.. of p at offset i of s; -1 when there is none.
RECURSIVE MatchFrom(_, _, _, _)
RECURSIVE TryLen(_, _, _, _, _)
TryLen(p, k, s, i, n) ==
    IF n < p.items[k].lo THEN -1
    ELSE LET r == MatchFrom(p, k + 1, s, i + n)
         IN IF r # -1 THEN r ELSE TryLen(p, k, s, i, n - 1)

MatchFrom(p, k, s, i) ==
    IF k > Len(p.items) THEN i
    ELSE LET it == p.items[k]
         IN CASE it.k = "bol" -> IF AtBol(p, s, i) THEN MatchFrom(p, k + 1, s, i) ELSE -1
              [] it.k = "eol" -> IF AtEol(p, s, i) THEN MatchFrom(p, k + 1, s, i) ELSE -1
              [] it.k = "cls" -> TryLen(p, k, s, i, RunLen(it, s, i, 0))

\* re.search(p, s) finds a match.
Search(p, s) == \E i \in 0..Len(s) : MatchFrom(p, 1, s, i) # -1

\* re.sub(p, '', s) from offset i on: the characters outside every match.
RECURSIVE ReSubFrom(_, _, _)
ReSubFrom(p, s, i) ==
    IF i >= Len(s) THEN <<>>
    ELSE LET e == MatchFrom(p, 1, s, i)
         IN IF e > i THEN ReSubFrom(p, s, e)
            ELSE <<s[i + 1]>> \o ReSubFrom(p, s, i + 1)

ReSub(p, s) == ReSubFrom(p, s, 0)

\* lines 424-425: all(map(regex_sub, PATTERNS.values())): true when no
\* substitution leaves the empty string.
CleanTextHelper(text) ==
    \A n \in PatternNames : Len(ReSub(PATTERNS[n], text)) # 0

\* re.split('\n\n', s): the blocks between non-overlapping '\n\n'.
RECURSIVE SplitFrom(_, _, _)
SplitFrom(s, i, cur) ==
    IF i > Len(s) THEN <<cur>>
    ELSE IF i < Len(s) /\ s[i] = NL /\ s[i + 1] = NL
         THEN <<cur>> \o SplitFrom(s, i + 2, <<>>)
         ELSE SplitFrom(s, i + 1, Append(cur, s[i]))

ReSplit(s) == SplitFrom(s, 1, <<>>)

\* '\n\n'.join(blocks)
RECURSIVE JoinFrom(_, _)
JoinFrom(blocks, i) ==
    IF i > Len(blocks) THEN <<>>
    ELSE IF i = Len(blocks) THEN blocks[i]
    ELSE blocks[i] \o <<NL, NL>> \o JoinFrom(blocks, i + 1)

Join(blocks) == JoinFrom(blocks, 1)

\* Indices of the blocks the generator expression of line 443 keeps.
RetainedBlocks(s) ==
    LET blocks == ReSplit(s)
    IN { i \in 1..Len(blocks) : CleanTextHelper(blocks[i]) }

RECURSIVE Pick(_, _, _)
Pick(blocks, keep, i) ==
    IF i > Len(blocks) THEN <<>>
    ELSE (IF i \in keep THEN <<blocks[i]>> ELSE <<>>) \o Pick(blocks, keep, i + 1)

\* line 443: the candidate text.
Candidate(s) == Join(Pick(ReSplit(s), RetainedBlocks(s), 1))

\* line 444: len(text)/float(len(er)) >= trim_limit, with trim_limit in
\* percent; only evaluated for a non-empty er.
RatioOk_Always(text, s, tlim) == TRUE

RatioOk(text, s, tlim) == Len(text) * 100 >= tlim * Len(s)

CleanText_NoFallback(s, tlim) == Candidate(s)

CleanText(s, tlim) ==
    IF RatioOk(Candidate(s), s, tlim) THEN Candidate(s) ELSE s

\* line 427: the default trim_limit, 0.05.
DefaultTrimLimit == 5

MaxLen == 5

FilterAlphabet == {"A", "1", "(", ")", NL}

FilterTexts == UNION { [1..n -> FilterAlphabet] : n \in 0..MaxLen }

TrimLimits == {0, DefaultTrimLimit, 50, 100, 150}

FltIdle ==
    /\ er = <<>>
    /\ trim_limit = DefaultTrimLimit
    /\ retained = {}
    /\ cleaned = <<>>
    /\ flt_pc = "raised"

FltStart ==
    /\ er \in FilterTexts
    /\ trim_limit \in TrimLimits
    /\ retained = {}
    /\ cleaned = <<>>
    /\ flt_pc = "call"

\* clean_text returns the candidate.
CleanTextTrimmed ==
    /\ flt_pc = "call"
    /\ Len(er) # 0
    /\ RatioOk(Candidate(er), er, trim_limit)
    /\ retained' = RetainedBlocks(er)
    /\ cleaned' = CleanText(er, trim_limit)
    /\ flt_pc' = "done"
    /\ UNCHANGED <<er, trim_limit>>
    /\ UNCHANGED <<gen_vars, cls_vars, pipe_vars>>

\* clean_text discards the candidate and returns er.
CleanTextOriginal ==
    /\ flt_pc = "call"
    /\ Len(er) # 0
    /\ ~RatioOk(Candidate(er), er, trim_limit)
    /\ retained' = RetainedBlocks(er)
    /\ cleaned' = CleanText(er, trim_limit)
    /\ flt_pc' = "done"
    /\ UNCHANGED <<er, trim_limit>>
    /\ UNCHANGED <<gen_vars, cls_vars, pipe_vars>>

\* len(er) = 0: the division of line 444 raises ZeroDivisionError.
CleanTextZeroDivision ==
    /\ flt_pc = "call"
    /\ Len(er) = 0
    /\ flt_pc' = "raised"
    /\ UNCHANGED <<er, trim_limit, retained, cleaned>>
    /\ UNCHANGED <<gen_vars, cls_vars, pipe_vars>>

FltNext == CleanTextTrimmed \/ CleanTextOriginal \/ CleanTextZeroDivision

----------------------------------------------------------------------------
(***************************************************************************)
(* classify.  Prices are integers; a return is kept as the fraction        *)
(* <<numerator, denominator>> so that no rounding is introduced.  Limits   *)
(* are in percent.                                                         *)
(***************************************************************************)
\* line 42: LIMIT = 0.05
LIMIT == 5

WindowLen == 2

PriceLevels == {90, 95, 96, 100, 104, 105, 106, 110}

PriceWindows == [1..WindowLen -> PriceLevels]

Limits == {0, LIMIT, 10}

NumClasses == {2, 3, 4}

\* lines 143-144: returns = close_prices.pct_change() gives 1 + r_i =
\* p_i / p_(i-1) from the second price on; ((1 + returns).cumprod() - 1)[-1]
\* is their product minus one.  CumProd is the product as a fraction.
RECURSIVE CumProd(_, _)
CumProd(prices, i) ==
    IF i < 2 THEN <<1, 1>>
    ELSE LET q == CumProd(prices, i - 1)
         IN <<q[1] * prices[i], q[2] * prices[i - 1]>>

CumReturns(prices) ==
    LET q == CumProd(prices, Len(prices))
    IN <<q[1] - q[2], q[2]>>

\* c < x percent, for a fraction c with a positive denominator.
FracLess(c, x) == c[1] * 100 < x * c[2]
\* c > x percent.
FracMore(c, x) == c[1] * 100 > x * c[2]

\* lines 146-149
Sentiment_Inclusive(cum_returns, nc, lim) ==
    IF nc = 3
    THEN IF ~FracMore(cum_returns, -1 * lim) THEN "neg"
         ELSE IF ~FracLess(cum_returns, lim) THEN "pos"
         ELSE "neut"
    ELSE IF ~FracMore(cum_returns, lim) THEN "neg" ELSE "pos"

Sentiment(cum_returns, nc, lim) ==
    IF nc = 3
    THEN IF FracLess(cum_returns, -1 * lim) THEN "neg"
         ELSE IF FracMore(cum_returns, lim) THEN "pos"
         ELSE "neut"
    ELSE IF FracLess(cum_returns, lim) THEN "neg" ELSE "pos"

ClsIdle ==
    /\ close_prices = <<>>
    /\ num_class = 3
    /\ limit = LIMIT
    /\ sentiment = "none"
    /\ cls_pc = "raised"

ClsStart ==
    /\ close_prices \in PriceWindows
    /\ num_class \in NumClasses
    /\ limit \in Limits
    /\ sentiment = "none"
    /\ cls_pc = "call"

\* classify with num_class = 3.
Classify3 ==
    /\ cls_pc = "call"
    /\ num_class = 3
    /\ sentiment' = Sentiment(CumReturns(close_prices), num_class, limit)
    /\ cls_pc' = "done"
    /\ UNCHANGED <<close_prices, num_class, limit>>
    /\ UNCHANGED <<gen_vars, flt_vars, pipe_vars>>

\* classify with num_class = 2.
Classify2 ==
    /\ cls_pc = "call"
    /\ num_class = 2
    /\ sentiment' = Sentiment(CumReturns(close_prices), num_class, limit)
    /\ cls_pc' = "done"
    /\ UNCHANGED <<close_prices, num_class, limit>>
    /\ UNCHANGED <<gen_vars, flt_vars, pipe_vars>>

\* line 134: assert num_class in (2, 3)
ClassifyAssertionError ==
    /\ cls_pc = "call"
    /\ num_class \notin {2, 3}
    /\ cls_pc' = "raised"
    /\ UNCHANGED <<close_prices, num_class, limit, sentiment>>
    /\ UNCHANGED <<gen_vars, flt_vars, pipe_vars>>

ClsNext == Classify3 \/ Classify2 \/ ClassifyAssertionError

----------------------------------------------------------------------------
(***************************************************************************)
(* main, filelistings and parser_dir.  main maps parser_dir over the       *)
(* per-symbol filing lists with a process pool; each worker runs one       *)
(* parser_dir call at a time.  The steps of a worker are split where it    *)
(* touches the file system, which the workers share.                       *)
(***************************************************************************)
MaxRuns == 2

\* The model runs a pool of two worker processes (POOL_SIZE, line 447, is 10).
Workers == {"w1", "w2"}

Labels == {"neg", "pos", "neut"}

\* Characters of the word the relevance gate looks for (line 84).
QUARTER == <<"q", "u", "a", "r", "t", "e", "r">>

\* lines 207-338: the cp1252 table, here its entry for \x92.
cp1252 == [c \in {"x92"} |-> "u2019"]

\* lines 340-350: every character in \x80-\xff is replaced through the table.
KillGremlins(text) ==
    [i \in 1..Len(text) |->
        IF text[i] \in DOMAIN cp1252 THEN cp1252[text[i]] ELSE text[i]]

\* 'quarter' in s
Contains(s, word) ==
    \E i \in 0..(Len(s) - Len(word)) :
        \A j \in 1..Len(word) : s[i + j] = word[j]

\* line 84: if er and 'quarter' in er
PassesGate_NonEmpty(text) == text # <<>>

PassesGate(text) == text # <<>> /\ Contains(text, QUARTER)

\* What FORM_DIR holds: the name of each file, in the order os.walk gives them.
FormDirWalk ==
    << [path |-> "a1", symbol |-> "AAA", datetime |-> <<"2013-01-15", "00:00">>,
        suffix |-> "-8-K.txt"],
       [path |-> "b1", symbol |-> "BBB", datetime |-> <<"2013-01-15", "16:30">>,
        suffix |-> "-8-K.txt"],
       [path |-> "n1", symbol |-> "AAA", datetime |-> <<"2013-01-15", "00:00">>,
        suffix |-> "-10-Q.txt"],
       [path |-> "a2", symbol |-> "AAA", datetime |-> <<"2013-04-16", "00:00">>,
        suffix |-> "-8-K.txt"] >>

\* lines 61-63: the name holds '8-K.txt' and matches FILENAME_PATTERN.
IsFiling(name) == name.suffix = "-8-K.txt"

\* line 65: Timestamp(datetime)
Timestamp(datetime) == [date |-> datetime[1], time |-> datetime[2]]

\* lines 54-68: filelistings, the (symbol, timestamp, filepath) entries of
\* one symbol in walk order.
RECURSIVE ListingFrom(_, _)
ListingFrom(symbol, i) ==
    IF i > Len(FormDirWalk) THEN <<>>
    ELSE LET name == FormDirWalk[i]
         IN (IF IsFiling(name) /\ name.symbol = symbol
             THEN << <<name.symbol, Timestamp(name.datetime), name.path>> >>
             ELSE <<>>) \o ListingFrom(symbol, i + 1)

FileListings ==
    [s \in { FormDirWalk[i].symbol : i \in { j \in 1..Len(FormDirWalk) :
                                              IsFiling(FormDirWalk[j]) } }
        |-> ListingFrom(s, 1)]

\* line 450: files.values(), in a fixed order.
FileListingValues == <<FileListings["AAA"], FileListings["BBB"]>>

Filings == UNION { { FileListings[s][i] : i \in 1..Len(FileListings[s]) } :
                   s \in DOMAIN FileListings }

FilePaths == { f[3] : f \in Filings }

\* lines 384-386: '{symbol}-{date}.txt' with date = strftime('%Y-%m-%d')
GetParsedFilename_DateOnly(symbol, timestamp) == <<timestamp.date, ".txt">>

GetParsedFilename(symbol, timestamp) == <<symbol, "-", timestamp.date, ".txt">>

\* os.path.join(CORPORA_PATH, label, parsed_filename)
CorpusPath(label, parsed_filename) == <<label, parsed_filename>>

CorpusPaths ==
    { CorpusPath(l, GetParsedFilename(f[1], f[2])) : l \in Labels, f \in Filings }

Absent == [exists |-> FALSE, content |-> <<>>]

\* lines 379-382
IsParsed(parsed_filename) ==
    \/ corpus[CorpusPath("neg", parsed_filename)].exists
    \/ corpus[CorpusPath("pos", parsed_filename)].exists

\* No price data for the window: classify raises.
NoData == <<>>

\* What a file of FORM_DIR can be: er is the text extract_er returns for it
\* (lines 352-377; empty when no exhibit body is found), prices the closing
\* prices at the dates of its window.
Profiles ==
    { [er |-> <<>>,                                   prices |-> <<100, 100>>],
      [er |-> <<"A", "1">>,                           prices |-> <<100, 110>>],
      [er |-> QUARTER \o <<NL, NL, "1">>,             prices |-> <<100, 90>>],
      [er |-> QUARTER \o <<"1">>,                     prices |-> <<100, 110>>],
      [er |-> QUARTER \o <<"x92">>,                   prices |-> <<100, 105>>],
      [er |-> QUARTER,                                prices |-> NoData] }

PipeIdle ==
    /\ form_dir = [p \in {} |-> 0]
    /\ corpus = [p \in {} |-> 0]
    /\ dirs = {}
    /\ queue = <<>>
    /\ w_pc = [w \in Workers |-> "dead"]
    /\ w_task = [w \in Workers |-> <<>>]
    /\ w_idx = [w \in Workers |-> 0]
    /\ w_buf = [w \in Workers |-> 0]
    /\ failed = FALSE
    /\ main_pc = "off"
    /\ run = 0
    /\ log = {}
    /\ wcount = <<>>

NoBuf == [clean_er |-> <<>>, er_class |-> "none"]

PipeStart ==
    /\ form_dir \in [FilePaths -> Profiles]
    /\ corpus = [p \in CorpusPaths |-> Absent]
    /\ dirs = {}
    /\ queue = <<>>
    /\ w_pc = [w \in Workers |-> "dead"]
    /\ w_task = [w \in Workers |-> <<>>]
    /\ w_idx = [w \in Workers |-> 0]
    /\ w_buf = [w \in Workers |-> NoBuf]
    /\ failed = FALSE
    /\ main_pc = "idle"
    /\ run = 0
    /\ log = {}
    /\ wcount = [r \in 1..MaxRuns |-> [f \in FilePaths |-> 0]]

Ev(f, ev, arg) == [run |-> run, f |-> f, ev |-> ev, arg |-> arg]

\* The filing a worker is at: (symbol, timestamp, filepath).
Cur(w) == w_task[w][w_idx[w]]

CurPath(w) ==
    CorpusPath(w_buf[w].er_class, GetParsedFilename(Cur(w)[1], Cur(w)[2]))

\* The for loop of parser_dir moves to the next filing, or the call returns.
Advance(w) ==
    IF w_idx[w] < Len(w_task[w])
    THEN /\ w_idx' = [w_idx EXCEPT ![w] = @ + 1]
         /\ w_pc' = [w_pc EXCEPT ![w] = "guard"]
         /\ UNCHANGED w_task
    ELSE /\ w_idx' = [w_idx EXCEPT ![w] = 0]
         /\ w_pc' = [w_pc EXCEPT ![w] = "idle"]
         /\ w_task' = [w_task EXCEPT ![w] = <<>>]

\* lines 446-450: main lists the files, starts the pool and calls pool.map.
StartMain ==
    /\ main_pc \in {"idle", "joined", "raised"}
    /\ run < MaxRuns
    /\ run' = run + 1
    /\ main_pc' = "mapping"
    /\ queue' = FileListingValues
    /\ w_pc' = [w \in Workers |-> "idle"]
    /\ w_task' = [w \in Workers |-> <<>>]
    /\ w_idx' = [w \in Workers |-> 0]
    /\ w_buf' = [w \in Workers |-> NoBuf]
    /\ failed' = FALSE
    /\ UNCHANGED <<form_dir, corpus, dirs, log, wcount>>
    /\ UNCHANGED <<gen_vars, flt_vars, cls_vars>>

\* An idle worker is handed the next filing list: parser_dir(files).
TakeTask(w) ==
    /\ main_pc = "mapping"
    /\ w_pc[w] = "idle"
    /\ queue # <<>>
    /\ w_task' = [w_task EXCEPT ![w] = Head(queue)]
    /\ w_idx' = [w_idx EXCEPT ![w] = 1]
    /\ w_pc' = [w_pc EXCEPT ![w] = "guard"]
    /\ queue' = Tail(queue)
    /\ UNCHANGED <<form_dir, corpus, dirs, w_buf, failed, main_pc, run, log, wcount>>
    /\ UNCHANGED <<gen_vars, flt_vars, cls_vars>>

\* lines 76-79: the filing is already in the corpus; continue.
GuardSkip(w) ==
    /\ w_pc[w] = "guard"
    /\ IsParsed(GetParsedFilename(Cur(w)[1], Cur(w)[2]))
    /\ log' = log \cup {Ev(Cur(w)[3], "visit", ""), Ev(Cur(w)[3], "skip", ""),
                        Ev(Cur(w)[3], "done", "")}
    /\ Advance(w)
    /\ UNCHANGED <<form_dir, corpus, dirs, queue, w_buf, failed, main_pc, run, wcount>>
    /\ UNCHANGED <<gen_vars, flt_vars, cls_vars>>

\* lines 76-81: the filing is not in the corpus.
GuardPass(w) ==
    /\ w_pc[w] = "guard"
    /\ ~IsParsed(GetParsedFilename(Cur(w)[1], Cur(w)[2]))
    /\ log' = log \cup {Ev(Cur(w)[3], "visit", "")}
    /\ w_pc' = [w_pc EXCEPT ![w] = "extract"]
    /\ UNCHANGED <<form_dir, corpus, dirs, queue, w_task, w_idx, w_buf, failed,
                   main_pc, run, wcount>>
    /\ UNCHANGED <<gen_vars, flt_vars, cls_vars>>

\* lines 82-84: the text is empty or has no 'quarter'; next filing.
GateSkip(w) ==
    /\ w_pc[w] = "extract"
    /\ ~PassesGate(form_dir[Cur(w)[3]].er)
    /\ log' = log \cup {Ev(Cur(w)[3], "read_file", ""), Ev(Cur(w)[3], "done", "")}
    /\ Advance(w)
    /\ UNCHANGED <<form_dir, corpus, dirs, queue, w_buf, failed, main_pc, run, wcount>>
    /\ UNCHANGED <<gen_vars, flt_vars, cls_vars>>

\* lines 82-86: the text passes the gate, is cleaned, and classify returns.
CleanAndClassify(w) ==
    /\ w_pc[w] = "extract"
    /\ PassesGate(form_dir[Cur(w)[3]].er)
    /\ form_dir[Cur(w)[3]].prices # NoData
    /\ LET f == Cur(w)[3]
           clean_er == CleanText(KillGremlins(form_dir[f].er), DefaultTrimLimit)
           er_class == Sentiment(CumReturns(form_dir[f].prices), 3, LIMIT)
       IN /\ w_buf' = [w_buf EXCEPT ![w] = [clean_er |-> clean_er,
                                            er_class |-> er_class]]
          /\ log' = log \cup {Ev(f, "read_file", ""), Ev(f, "clean_text", ""),
                              Ev(f, "classify", ""), Ev(f, "classified", er_class)}
    /\ w_pc' = [w_pc EXCEPT ![w] = "mkdir"]
    /\ UNCHANGED <<form_dir, corpus, dirs, queue, w_task, w_idx, failed, main_pc,
                   run, wcount>>
    /\ UNCHANGED <<gen_vars, flt_vars, cls_vars>>

\* lines 82-86: classify raises (no price data).  parser_dir has no handler:
\* the call ends, the pool worker reports the failure and is free again.
ClassifyRaises(w) ==
    /\ w_pc[w] = "extract"
    /\ PassesGate(form_dir[Cur(w)[3]].er)
    /\ form_dir[Cur(w)[3]].prices = NoData
    /\ log' = log \cup {Ev(Cur(w)[3], "read_file", ""), Ev(Cur(w)[3], "clean_text", ""),
                        Ev(Cur(w)[3], "classify", ""), Ev(Cur(w)[3], "raise", "")}
    /\ failed' = TRUE
    /\ w_pc' = [w_pc EXCEPT ![w] = "idle"]
    /\ w_task' = [w_task EXCEPT ![w] = <<>>]
    /\ w_idx' = [w_idx EXCEPT ![w] = 0]
    /\ UNCHANGED <<form_dir, corpus, dirs, queue, w_buf, main_pc, run, wcount>>
    /\ UNCHANGED <<gen_vars, flt_vars, cls_vars>>

\* lines 87-88 and 156-161: mkdir of the label directory.
Mkdir(w) ==
    /\ w_pc[w] = "mkdir"
    /\ dirs' = dirs \cup {w_buf[w].er_class}
    /\ log' = log \cup {Ev(Cur(w)[3], "mkdir", w_buf[w].er_class)}
    /\ w_pc' = [w_pc EXCEPT ![w] = "write"]
    /\ UNCHANGED <<form_dir, corpus, queue, w_task, w_idx, w_buf, failed, main_pc,
                   run, wcount>>
    /\ UNCHANGED <<gen_vars, flt_vars, cls_vars>>

\* lines 89 and 163-165: write_file does nothing for an empty buffer;
\* otherwise open(filepath, 'w+') creates or truncates the file.
WriteFileOpen(w) ==
    /\ w_pc[w] = "write"
    /\ IF w_buf[w].clean_er = <<>>
       THEN /\ log' = log \cup {Ev(Cur(w)[3], "done", "")}
            /\ Advance(w)
            /\ UNCHANGED corpus
       ELSE /\ corpus' = [corpus EXCEPT ![CurPath(w)] =
                              [exists |-> TRUE, content |-> <<>>]]
            /\ log' = log \cup {Ev(Cur(w)[3], "open", w_buf[w].er_class)}
            /\ w_pc' = [w_pc EXCEPT ![w] = "writing"]
            /\ UNCHANGED <<w_task, w_idx>>
    /\ UNCHANGED <<form_dir, dirs, queue, w_buf, failed, main_pc, run, wcount>>
    /\ UNCHANGED <<gen_vars, flt_vars, cls_vars>>

\* line 166: writelines, and the file is closed.
WriteFileClose(w) ==
    /\ w_pc[w] = "writing"
    /\ corpus' = [corpus EXCEPT ![CurPath(w)] =
                      [exists |-> TRUE, content |-> w_buf[w].clean_er]]
    /\ wcount' = [wcount EXCEPT ![run][Cur(w)[3]] = @ + 1]
    /\ log' = log \cup {Ev(Cur(w)[3], "write", w_buf[w].er_class),
                        Ev(Cur(w)[3], "done", "")}
    /\ Advance(w)
    /\ UNCHANGED <<form_dir, dirs, queue, w_buf, failed, main_pc, run>>
    /\ UNCHANGED <<gen_vars, flt_vars, cls_vars>>

\* line 450: pool.map re-raises the failure of a parser_dir call in main;
\* nothing catches it, main ends and the pool's worker processes are
\* terminated with it, wherever they are.
PoolMapRaises ==
    /\ main_pc = "mapping"
    /\ failed
    /\ main_pc' = "raised"
    /\ w_pc' = [w \in Workers |-> "dead"]
    /\ UNCHANGED <<form_dir, corpus, dirs, queue, w_task, w_idx, w_buf, failed,
                   run, log, wcount>>
    /\ UNCHANGED <<gen_vars, flt_vars, cls_vars>>

\* lines 450-452: every list was processed; pool.map returns, close, join.
MainJoins ==
    /\ main_pc = "mapping"
    /\ ~failed
    /\ queue = <<>>
    /\ \A w \in Workers : w_pc[w] = "idle"
    /\ main_pc' = "joined"
    /\ w_pc' = [w \in Workers |-> "dead"]
    /\ UNCHANGED <<form_dir, corpus, dirs, queue, w_task, w_idx, w_buf, failed,
                   run, log, wcount>>
    /\ UNCHANGED <<gen_vars, flt_vars, cls_vars>>

PipeNext ==
    \/ StartMain
    \/ PoolMapRaises
    \/ MainJoins
    \/ \E w \in Workers :
          \/ TakeTask(w)
          \/ GuardSkip(w)
          \/ GuardPass(w)
          \/ GateSkip(w)
          \/ CleanAndClassify(w)
          \/ ClassifyRaises(w)
          \/ Mkdir(w)
          \/ WriteFileOpen(w)
          \/ WriteFileClose(w)

----------------------------------------------------------------------------
LocatorInit == GenStart /\ FltIdle /\ ClsIdle /\ PipeIdle

FilterInit == GenIdle /\ FltStart /\ ClsIdle /\ PipeIdle

ClassifyInit == GenIdle /\ FltIdle /\ ClsStart /\ PipeIdle

PipelineInit == GenIdle /\ FltIdle /\ ClsIdle /\ PipeStart

SpecLocator == LocatorInit /\ [][GenNext]_vars

SpecFilter == FilterInit /\ [][FltNext]_vars

SpecClassify == ClassifyInit /\ [][ClsNext]_vars

SpecPipeline == PipelineInit /\ [][PipeNext]_vars

----------------------------------------------------------------------------
\* C2: the text clean_text returns either keeps at least the trim_limit
\* fraction of the input's length or is the input itself.
C2_TrimSafety ==
    flt_pc = "done" =>
        \/ Len(cleaned) * 100 >= trim_limit * Len(er)
        \/ cleaned = er

\* A candidate that is not empty, keeps too little and is discarded.
C2_Witness ==
    /\ flt_pc = "done"
    /\ Candidate(er) # <<>>
    /\ Len(Candidate(er)) * 100 < trim_limit * Len(er)
    /\ cleaned = er

\* With a positive trim_limit clean_text never returns the empty text (the
\* filter-level half of C10, for every text of SpecFilter).
CleanTextNonEmpty ==
    (flt_pc = "done" /\ trim_limit > 0) => cleaned # <<>>

\* C7: a block that some pattern of the battery matches anywhere is not in
\* the candidate.
C7_AnyMatchDrops ==
    flt_pc = "done" =>
        \A i \in 1..Len(ReSplit(er)) :
            (\E n \in PatternNames : Search(PATTERNS[n], ReSplit(er)[i]))
                => i \notin retained

\* The cumulative return of the window, first price to last, against x percent.
WindowBelow(x) ==
    100 * close_prices[Len(close_prices)] < (100 + x) * close_prices[1]
WindowAbove(x) ==
    100 * close_prices[Len(close_prices)] > (100 + x) * close_prices[1]

\* C4: with three classes the label is 'neg' exactly when the cumulative
\* return is below -limit, 'pos' exactly when it is above limit and 'neut'
\* otherwise; with two classes it is 'neg' exactly when the return is below
\* limit and 'pos' otherwise.
C4_LabelMapping ==
    cls_pc = "done" =>
        /\ num_class = 3 =>
              /\ sentiment = "neg" <=> WindowBelow(-1 * limit)
              /\ sentiment = "pos" <=> WindowAbove(limit)
              /\ sentiment = "neut" <=>
                    (~WindowBelow(-1 * limit) /\ ~WindowAbove(limit))
        /\ num_class = 2 =>
              /\ sentiment = "neg" <=> WindowBelow(limit)
              /\ sentiment = "pos" <=> ~WindowBelow(limit)
        /\ sentiment \in {"neg", "pos", "neut"}

\* Two classes, a return of 4 percent against a limit of 5 percent: 'neg'.
C4_Witness ==
    /\ cls_pc = "done"
    /\ num_class = 2
    /\ limit = LIMIT
    /\ close_prices[1] = 100
    /\ close_prices[Len(close_prices)] = 104
    /\ sentiment = "neg"

Events(ev) == { e \in log : e.ev = ev }

Happened(r, f, ev) == \E e \in log : e.run = r /\ e.f = f /\ e.ev = ev

\* C1: as long as no run has failed, a filing that got a corpus entry in one
\* run is skipped by is_parsed in every later run: no filing has a corpus
\* file written in two runs.
C1_NoRewrite ==
    Events("raise") = {} =>
        \A e1 \in Events("write"), e2 \in Events("write") :
            e1.f = e2.f => e1.run = e2.run

\* C3: no failure leaves main, and a parser_dir call that is over has been
\* through every filing of its list.
C3_FailureIsolated ==
    /\ main_pc # "raised"
    /\ \A s \in DOMAIN FileListings :
          LET files == FileListings[s]
          IN (/\ Happened(run, files[1][3], "visit")
              /\ \A w \in Workers : w_task[w] # files)
                => \A i \in 1..Len(files) : Happened(run, files[i][3], "visit")

\* C6: two workers never have the same corpus path open for writing.
C6_DistinctPaths ==
    \A w1 \in Workers, w2 \in Workers :
        (w1 # w2 /\ w_pc[w1] = "writing" /\ w_pc[w2] = "writing")
            => CurPath(w1) # CurPath(w2)

\* Two workers are writing at the same time, entries of the same date and
\* label for different symbols.
C6_Witness ==
    \E w1 \in Workers, w2 \in Workers :
        /\ w1 # w2
        /\ w_pc[w1] = "writing" /\ w_pc[w2] = "writing"
        /\ Cur(w1)[2].date = Cur(w2)[2].date
        /\ w_buf[w1].er_class = w_buf[w2].er_class

\* C9: for a filing whose extracted text is empty or lacks 'quarter',
\* parser_dir calls neither clean_text nor classify, makes no directory,
\* writes nothing and raises nothing; a filing skipped by is_parsed is not
\* read.
C9_GateShortCircuit ==
    /\ \A e \in log :
          (form_dir[e.f].er = <<>> \/ ~Contains(form_dir[e.f].er, QUARTER)) =>
              e.ev \in {"visit", "skip", "read_file", "done"}
    /\ \A e \in Events("skip") : ~Happened(e.run, e.f, "read_file")

\* A filing that fails the gate was read and left, and the next filing of the
\* list was reached.
C9_Witness ==
    /\ form_dir["a1"].er # <<>>
    /\ ~Contains(form_dir["a1"].er, QUARTER)
    /\ Happened(1, "a1", "read_file")
    /\ Happened(1, "a1", "done")
    /\ Happened(1, "a2", "visit")

\* C10: a filing that passed the gate and was classified has, when parser_dir
\* is done with it, exactly one corpus file written in that run, in the
\* directory of the label classify returned.
C10_OneEntryPerClassified ==
    \A e \in Events("classified") :
        Happened(e.run, e.f, "done") =>
            /\ wcount[e.run][e.f] = 1
            /\ \E x \in Events("write") :
                  x.run = e.run /\ x.f = e.f /\ x.arg = e.arg

\* A text whose every block is removed was written, unfiltered.
C10_Witness ==
    \E e \in Events("write") :
        /\ Candidate(KillGremlins(form_dir[e.f].er)) = <<>>
        /\ wcount[e.run][e.f] = 1
        /\ \E p \in CorpusPaths :
              corpus[p].exists /\ corpus[p].content = form_dir[e.f].er

====
